---- MODULE Spec2Model ----
(***************************************************************************)
(* CalisMind: a retrieval-augmented chat assistant.                        *)
(*                                                                         *)
(*   app.py            chat() streams an OpenAI completion into a Gradio   *)
(*                     Chatbot; the prompt is built by user_prompt().      *)
(*   langchain_app.py  chat_as_messages() / chat_as_tuples() call one      *)
(*                     module-level ConversationalRetrievalChain.          *)
(*   rag_setup.py      builds that chain (memory + retriever).             *)
(*   vectorize.py      builds and loads the persisted Chroma collection.   *)
(*                                                                         *)
(* Strings are sequences of characters (one-character strings); a fixed    *)
(* literal of the source that no input can be confused with is a single    *)
(* element.                                                                *)
(***************************************************************************)
EXTENDS Integers, Sequences, FiniteSets, TLC

VARIABLES
    program,      \* which program runs: "app", "langchain_app", "vectorize", ...
    fn,           \* the handler bound to the listeners
    store,        \* per storage location: the persisted Chroma directory
    retriever_k,  \* k of the retriever created at startup
    chatbot,      \* value of the gr.Chatbot component, per browser session
    call,         \* the handler invocation of each event listener
    memory,       \* ConversationBufferMemory of the module-level chain
    turns,        \* handler invocations started so far
    said,         \* per session: every message the session asked or was shown
    transcript,   \* per session: the completed turns, in order of completion
    overlap,      \* per session: two invocations were ever in flight at once
    prompt_call,  \* a call of user_prompt: its arguments and its result
    retrieved,    \* what the retriever returned for the last query
    build,        \* the create_vector_store call in progress
    latest,       \* per storage location: how the most recent build ended
    builds,       \* create_vector_store calls started so far
    cli,          \* vectorize.main: its vector_store variable and last outcome
    kb,           \* the knowledge-base directory on disk
    ingest        \* a call of load_and_process_documents and its result

vars == <<program, fn, store, retriever_k, chatbot, call, memory, turns,
          said, transcript, overlap, prompt_call, retrieved, build, latest, builds,
          cli, kb, ingest>>

\* The state of the chat applications, of the retriever checks and of the
\* index builds.
chatVars == <<chatbot, call, memory, turns, said, transcript, overlap>>
promptVars == <<prompt_call, retrieved>>
ingestVars == <<kb, ingest>>
buildVars == <<build, latest, builds, cli, ingestVars>>

-----------------------------------------------------------------------------
(* Bounds of the model.                                                    *)

\* Chat: handler invocations started, deltas delivered by one stream.
MaxTurns == 2
MaxDeltas == 2

\* Retrieval: chunks of a collection with varied metadata, and the size of
\* the largest uniform collection.
MaxChunks == 3
MaxStore == 26

\* Index builds: create_vector_store calls started, chunks given to one
\* call, and the chunks Chroma adds in one batch.
MaxBuilds == 2
MaxBuildChunks == 2
BatchSize == 1

\* Ingestion: entries of the knowledge-base root, PDF files of a folder,
\* pages of a file, and paragraphs of a page.
MaxFolders == 2
MaxFiles == 1
MaxPages == 2
MaxParagraphs == 3

-----------------------------------------------------------------------------
(* Configuration (config.py) and library defaults.                         *)

K_RESULTS == 25

\* config.py, VECTORIZE_CLI_CHOICES: the menu lines, numbered from 1.
VECTORIZE_CLI_CHOICES ==
    <<"Load documents, add metadata, and split into chunks",
      "Print statistics about documents and chunks",
      "Create and persist a vector store",
      "Load an existing vector store",
      "Print statistics about the vector store",
      "Exit">>

CHUNK_SIZE == 1000
CHUNK_OVERLAP == 200

\* VectorStore.as_retriever() without search_kwargs searches with k = 4.
DEFAULT_K == 4

SYSTEM_PROMPT == <<"SYSTEM_PROMPT">>

-----------------------------------------------------------------------------
(* Strings.                                                                *)

LowerCase == {"a", "b", "i", "n", "q", "r"}
UpperCase == {"A", "B", "I", "N", "Q", "R"}

Upper(c) ==
    CASE c = "a" -> "A" [] c = "b" -> "B" [] c = "i" -> "I"
      [] c = "n" -> "N" [] c = "q" -> "Q" [] c = "r" -> "R"
      [] OTHER -> c

Lower(c) ==
    CASE c = "A" -> "a" [] c = "B" -> "b" [] c = "I" -> "i"
      [] c = "N" -> "n" [] c = "Q" -> "q" [] c = "R" -> "r"
      [] OTHER -> c

IsCased(c) == c \in LowerCase \cup UpperCase

\* str.title(): the first cased character of every run of cased characters
\* is upper-cased, every other cased character is lower-cased.
Title(s) ==
    [i \in 1..Len(s) |->
        IF ~IsCased(s[i]) THEN s[i]
        ELSE IF i = 1 \/ ~IsCased(s[i - 1]) THEN Upper(s[i])
        ELSE Lower(s[i])]

RECURSIVE Join(_, _)
\* sep.join(lines) for a sequence of strings.
Join(lines, sep) ==
    IF Len(lines) = 0 THEN <<>>
    ELSE IF Len(lines) = 1 THEN lines[1]
    ELSE lines[1] \o sep \o Join(Tail(lines), sep)

\* The orders in which a set of size <= n can be iterated.
Orders(S) ==
    {f \in [1..Cardinality(S) -> S] : \A x \in S : \E i \in DOMAIN f : f[i] = x}

-----------------------------------------------------------------------------
(* Chunks, the retriever and user_prompt (app.py, rag_setup.py).           *)

Range(f) == {f[i] : i \in DOMAIN f}

Min(a, b) == IF a <= b THEN a ELSE b

NoMetadata == [key \in {} |-> <<>>]

\* Document.metadata.get(key, default)
MetaGet(metadata, key, default) ==
    IF key \in DOMAIN metadata THEN metadata[key] ELSE default

\* add_metadata(doc, author_name, book_name)
add_metadata(doc, author_name, book_name) ==
    [doc EXCEPT !.metadata =
        [key \in DOMAIN doc.metadata \cup {"author", "book"} |->
            IF key = "author" THEN author_name
            ELSE IF key = "book" THEN book_name
            ELSE doc.metadata[key]]]

\* Path(name).stem: the name up to its last dot, the whole name when that
\* dot is its first or last character or there is none.
Stem(name) ==
    LET dots == {i \in 1..Len(name) : name[i] = "."}
    IN IF dots = {} THEN name
       ELSE LET i == CHOOSE d \in dots : \A e \in dots : e <= d
            IN IF 1 < i /\ i < Len(name) THEN SubSeq(name, 1, i - 1) ELSE name

\* name + ".pdf"
Pdf(name) == name \o <<".", "p", "d", "f">>

\* The document loaded from a page (of content `text`) of the file named
\* `file` in the folder named `folder` (load_and_process_documents, the
\* loop over folder_docs). Of the loader's own metadata the file name of
\* "source" is the parameter `file`; the rest is left out.
LoadedDocument(folder, file, text) ==
    add_metadata([page_content |-> text, metadata |-> NoMetadata],
                 Title(Stem(folder)), Title(Stem(file)))

\* retriever.invoke(query): the k records ranked first for the query, all of
\* them when the collection holds fewer. The similarity ranking is opaque;
\* the order of `coll` stands for it.
Retrieve(coll, k) == SubSeq(coll, 1, Min(k, Len(coll)))

\* f'- {author} in "{book}"'
Reference(doc) ==
    <<"-", " ">> \o MetaGet(doc.metadata, "author", <<"Unknown Author">>)
        \o <<" ", "i", "n", " ", "\"">>
        \o MetaGet(doc.metadata, "book", <<"Unknown Book">>) \o <<"\"">>

retrieved_references(results) ==
    [i \in 1..Len(results) |-> Reference(results[i])]

\* "\n".join(retrieved_references): the list is joined as it is.
formatted_references_keeps_duplicates(results) ==
    {Join(retrieved_references(results), <<"\n">>)}

\* "\n".join(set(retrieved_references)): a set is iterated in no fixed
\* order, so this is the set of strings the join can produce.
formatted_references(results) ==
    {Join(o, <<"\n">>) : o \in Orders(Range(retrieved_references(results)))}

\* user_prompt without the `if not results` return.
user_prompt_always_sources(user_input, results) ==
    {<<"User Input: ">> \o user_input \o <<"\n\nSources:\n">> \o refs \o <<".">> :
        refs \in formatted_references(results)}

\* user_prompt(user_input): the strings it can return for these results.
user_prompt(user_input, results) ==
    IF Len(results) = 0
    THEN {<<"User Input: ">> \o user_input}
    ELSE {<<"User Input: ">> \o user_input \o <<"\n\nSources:\n">> \o refs \o <<".">> :
            refs \in formatted_references(results)}

-----------------------------------------------------------------------------
(* The persisted vector store (vectorize.py).                              *)
(*                                                                         *)
(* vectorize.py imports HF_EMBEDDINGS_MODEL from config.py, which does not *)
(* define it. The functions are modelled as written, as they run once the  *)
(* name is defined.                                                        *)

\* OpenAIEmbeddings() and HuggingFaceEmbeddings(model_name=...)
Backends == {"openai", "hf"}

\* Both backends persist to DB_PATH.
PathOf_shared(b) == "DB_PATH"

\* DB_PATH and Path(f"{str(DB_PATH)}_hf")
PathOf(b) == IF b = "openai" THEN "DB_PATH" ELSE "DB_PATH_hf"

Paths == {PathOf(b) : b \in Backends}

\* A storage location: whether the directory exists, whether it holds the
\* collection, and the collection's records.
NoDirectory == [dir |-> FALSE, coll |-> FALSE, records |-> <<>>]

\* An embedding record: the chunk and the backend that embedded it.
Record(doc, b) == [doc |-> doc, embedding |-> b]

\* A directory whose collection holds `docs`, embedded by b.
Persisted(docs, b) ==
    [dir |-> TRUE, coll |-> TRUE,
     records |-> [i \in 1..Len(docs) |-> Record(docs[i], b)]]

\* The chunks of the collection at a location.
Collection(path) ==
    [i \in 1..Len(store[path].records) |-> store[path].records[i].doc]

\* Chroma(persist_directory=...): opens the directory; the directory and
\* the collection are created when missing.
Chroma(d) == [d EXCEPT !.dir = TRUE, !.coll = TRUE]

\* delete_collection() leaves the records in place.
delete_collection_keeps_records(d) == [d EXCEPT !.coll = FALSE]

\* vector_store.delete_collection()
delete_collection(d) == [d EXCEPT !.coll = FALSE, !.records = <<>>]

\* The handle is opened without testing that the directory exists.
load_vector_store_always(d) == [none |-> FALSE, dir |-> Chroma(d)]

\* load_vector_store() / load_vector_store_hf(): a handle when the
\* directory exists, None otherwise.
load_vector_store(d) ==
    IF d.dir THEN [none |-> FALSE, dir |-> Chroma(d)]
    ELSE [none |-> TRUE, dir |-> d]

\* create_vector_store, lines 89-94: an existing store is loaded and its
\* collection deleted.
delete_existing(d) ==
    LET vector_store == load_vector_store(d) IN
    IF ~vector_store.none THEN delete_collection(vector_store.dir) ELSE d

\* add_texts: the batch is embedded and its records are stored.
add_texts(d, docs, b) ==
    [d EXCEPT !.records = @ \o [i \in 1..Len(docs) |-> Record(docs[i], b)]]

-----------------------------------------------------------------------------
(* Chat handlers.                                                          *)

Sessions == {"s1", "s2"}

\* user_input.submit(...) and send_button.click(...): two event listeners
\* bound to the same handler; each runs one invocation at a time.
Listeners == {"submit", "click"}

\* What the user can type into the textbox.
Questions == {<<>>, <<" ">>, <<"q">>}

\* chunk.choices[0].delta.content: a string or None.
Deltas == {[none |-> TRUE, text |-> <<>>], [none |-> FALSE, text |-> <<"a">>]}

\* Complete answers of the chain (result["answer"]).
Answers == {<<>>, <<"a">>}

Message(role, content) == [role |-> role, content |-> content]

\* chunk.choices[0].delta.content or ""
DeltaText(d) == IF d.none THEN <<>> ELSE d.text

\* The system message is added after the history instead of first.
chat_messages_system_last(history, prompt) ==
    history \o <<Message("system", SYSTEM_PROMPT), Message("user", prompt)>>

\* messages = [system] + history + [user: user_prompt(user_input)]
chat_messages(history, prompt) ==
    <<Message("system", SYSTEM_PROMPT)>> \o history \o <<Message("user", prompt)>>

\* The question is recorded under the assistant's role.
chat_history_add_wrong_role(history, user_input) ==
    Append(history, Message("assistant", user_input))

\* history += [{"role": "user", "content": user_input}]
chat_history_add(history, user_input) ==
    Append(history, Message("user", user_input))

\* yield [{"role": "assistant", "content": response}]
chat_yield_answer_only(history, response) ==
    <<Message("assistant", response)>>

\* yield history + [{"role": "assistant", "content": response}]
chat_yield(history, response) ==
    Append(history, Message("assistant", response))

\* The chain's request: the memory's messages as chat_history, then the
\* question (ConversationalRetrievalChain.invoke({"question": q})).
chain_request(mem, question) ==
    mem \o <<Message("human", question)>>

\* memory.save_context: the question and the answer are appended.
chain_save(mem, question, answer) ==
    mem \o <<Message("human", question), Message("ai", answer)>>

IdleCall ==
    [pc |-> "idle", session |-> "s1", user_input |-> <<>>, received |-> <<>>,
     history |-> <<>>, messages |-> <<>>, results |-> <<>>, deltas |-> <<>>,
     response |-> <<>>, yields |-> <<>>]

InFlight(s) == {l \in Listeners : call[l].pc # "idle" /\ call[l].session = s}

\* retriever = vector_store.as_retriever()            (app.py)
app_retriever_k == DEFAULT_K

\* vector_store.as_retriever(search_kwargs={"k": K_RESULTS})   (rag_setup.py)
chain_retriever_k == K_RESULTS

\* Collections a chat application can find at DB_PATH.
ChatCollections ==
    LET c1 == LoadedDocument(<<"a">>, Pdf(<<"b">>), <<"t">>)
        c2 == LoadedDocument(<<"b">>, Pdf(<<"a">>), <<"u">>)
    IN  {<<>>, <<c1, c2, c1>>}

Handlers(p) ==
    IF p = "app" THEN {"chat"} ELSE {"chat_as_messages", "chat_as_tuples"}

IdlePrompt ==
    [pc |-> "idle", user_input |-> <<>>, value |-> <<>>]

IdleBuild ==
    [pc |-> "idle", backend |-> "openai", chunks |-> <<>>, added |-> 0]

\* No chat session has started.
NoChat ==
    /\ chatbot = [s \in Sessions |-> <<>>]
    /\ call = [l \in Listeners |-> IdleCall]
    /\ memory = <<>>
    /\ turns = 0
    /\ said = [s \in Sessions |-> {}]
    /\ transcript = [s \in Sessions |-> <<>>]
    /\ overlap = [s \in Sessions |-> FALSE]

\* No user_prompt call has been made.
NoPrompt ==
    /\ prompt_call = IdlePrompt
    /\ retrieved = <<>>

\* KNOWLEDGE_BASE_DIR does not exist.
NoKnowledgeBase == [exists |-> FALSE, entries |-> <<>>]

IdleIngest ==
    [pc |-> "idle", outcome |-> "none", documents |-> <<>>, chunks |-> <<>>,
     parents |-> <<>>]

\* vectorize.main, line 285: documents, chunks, vector_store = None, None, None
\* vector_store is the location the handle is opened on and embedding the
\* embedding function it holds; choice and action are the last input and
\* the branch of the loop it selected; running: the loop has not ended.
StartedCli ==
    [vector_store |-> "None", embedding |-> "None", outcome |-> "none",
     path |-> "None", sampled |-> FALSE, count |-> 0,
     choice |-> "", action |-> "none", running |-> TRUE]

\* No index build has started.
NoBuild ==
    /\ build = IdleBuild
    /\ latest = [p \in Paths |->
                   [status |-> "none", chunks |-> <<>>, replaced |-> 0, prior |-> <<>>]]
    /\ builds = 0
    /\ cli = StartedCli
    /\ kb = NoKnowledgeBase
    /\ ingest = IdleIngest

\* A chat application has started on an existing store: the retriever (or
\* the chain) exists and the UI is up.
Init ==
    /\ program \in {"app", "langchain_app"}
    /\ fn \in Handlers(program)
    /\ \E docs \in ChatCollections :
          store = [p \in Paths |->
                     IF p = "DB_PATH" THEN Persisted(docs, "openai") ELSE NoDirectory]
    /\ retriever_k = (IF program = "app" THEN app_retriever_k ELSE chain_retriever_k)
    /\ NoChat
    /\ NoPrompt
    /\ NoBuild

\* Bookkeeping of a dispatched event: the session asked q.
Dispatch(l, s, q) ==
    /\ call[l].pc = "idle"
    /\ turns < MaxTurns
    /\ turns' = turns + 1
    /\ said' = [said EXCEPT ![s] = @ \cup {Message("user", q)}]
    /\ overlap' = [overlap EXCEPT ![s] = @ \/ InFlight(s) # {}]

\* app.chat, lines 59-72: the request is assembled and sent.
chat(l, s, q) ==
    /\ fn = "chat"
    /\ Dispatch(l, s, q)
    /\ LET results == Retrieve(Collection("DB_PATH"), retriever_k) IN
       \E prompt \in user_prompt(q, results) :
          call' = [call EXCEPT ![l] =
                     [IdleCall EXCEPT !.pc = "create", !.session = s,
                                      !.user_input = q, !.received = chatbot[s],
                                      !.history = chatbot[s], !.results = results,
                                      !.messages = chat_messages(chatbot[s], prompt)]]
    /\ UNCHANGED <<promptVars, buildVars, program, fn, store, retriever_k, chatbot, memory, transcript>>

\* openai.chat.completions.create raises.
chat_create_error(l) ==
    /\ call[l].pc = "create"
    /\ call' = [call EXCEPT ![l] = IdleCall]
    /\ UNCHANGED <<promptVars, buildVars, program, fn, store, retriever_k, chatbot, memory, turns,
                   said, transcript, overlap>>

\* create returns the stream; lines 74-78.
chat_create(l) ==
    /\ call[l].pc = "create"
    /\ call' = [call EXCEPT ![l].pc = "stream",
                            ![l].history = chat_history_add(@, call[l].user_input)]
    /\ UNCHANGED <<promptVars, buildVars, program, fn, store, retriever_k, chatbot, memory, turns,
                   said, transcript, overlap>>

\* One iteration of `for chunk in stream`; the yielded value becomes the
\* session's Chatbot value.
chat_delta(l, d) ==
    /\ call[l].pc = "stream"
    /\ Len(call[l].deltas) < MaxDeltas
    /\ LET response == call[l].response \o DeltaText(d)
           value == chat_yield(call[l].history, response)
       IN  /\ call' = [call EXCEPT ![l].response = response,
                                   ![l].deltas = Append(@, d),
                                   ![l].yields = Append(@, value)]
           /\ chatbot' = [chatbot EXCEPT ![call[l].session] = value]
           /\ said' = [said EXCEPT ![call[l].session] =
                         @ \cup {Message("assistant", response)}]
    /\ UNCHANGED <<promptVars, buildVars, program, fn, store, retriever_k, memory, turns,
                   transcript, overlap>>

\* The stream raises while it is iterated (the connection drops).
chat_stream_error(l) ==
    /\ call[l].pc = "stream"
    /\ call' = [call EXCEPT ![l] = IdleCall]
    /\ UNCHANGED <<promptVars, buildVars, program, fn, store, retriever_k, chatbot, memory, turns,
                   said, transcript, overlap>>

\* The stream is exhausted: the generator returns.
chat_stream_end(l) ==
    /\ call[l].pc = "stream"
    /\ call' = [call EXCEPT ![l] = IdleCall]
    /\ transcript' = [transcript EXCEPT ![call[l].session] =
                        Append(@, [question |-> call[l].user_input,
                                   answer |-> call[l].response])]
    /\ UNCHANGED <<promptVars, buildVars, program, fn, store, retriever_k, chatbot, memory, turns,
                   said, overlap>>

\* langchain_app.chat_as_messages, lines 59-63: the question is appended
\* to history and the chain is invoked.
chat_as_messages(l, s, q) ==
    /\ fn = "chat_as_messages"
    /\ Dispatch(l, s, q)
    /\ call' = [call EXCEPT ![l] =
                  [IdleCall EXCEPT !.pc = "invoke", !.session = s,
                                   !.user_input = q, !.received = chatbot[s],
                                   !.history = Append(chatbot[s], Message("user", q)),
                                   !.results = Retrieve(Collection("DB_PATH"), retriever_k),
                                   !.messages = chain_request(memory, q)]]
    /\ UNCHANGED <<promptVars, buildVars, program, fn, store, retriever_k, chatbot, memory, transcript>>

\* langchain_app.chat_as_tuples, line 26: the chain is invoked.
chat_as_tuples(l, s, q) ==
    /\ fn = "chat_as_tuples"
    /\ Dispatch(l, s, q)
    /\ call' = [call EXCEPT ![l] =
                  [IdleCall EXCEPT !.pc = "invoke", !.session = s,
                                   !.user_input = q, !.received = chatbot[s],
                                   !.history = chatbot[s],
                                   !.results = Retrieve(Collection("DB_PATH"), retriever_k),
                                   !.messages = chain_request(memory, q)]]
    /\ UNCHANGED <<promptVars, buildVars, program, fn, store, retriever_k, chatbot, memory, transcript>>

\* conversation_chain.invoke raises: nothing is saved to the memory.
chain_invoke_error(l) ==
    /\ call[l].pc = "invoke"
    /\ call' = [call EXCEPT ![l] = IdleCall]
    /\ UNCHANGED <<promptVars, buildVars, program, fn, store, retriever_k, chatbot, memory, turns,
                   said, transcript, overlap>>

\* The chain answers: the turn is saved to the memory, and the handler
\* appends the answer to history (lines 64-67 / 27-30).
chain_invoke(l, answer) ==
    /\ call[l].pc = "invoke"
    /\ memory' = chain_save(memory, call[l].user_input, answer)
    /\ call' = [call EXCEPT ![l].pc = "return", ![l].response = answer,
                            ![l].history =
                                IF fn = "chat_as_messages"
                                THEN Append(@, Message("assistant", answer))
                                ELSE Append(@, <<call[l].user_input, answer>>)]
    /\ said' = [said EXCEPT ![call[l].session] = @ \cup {Message("assistant", answer)}]
    /\ UNCHANGED <<promptVars, buildVars, program, fn, store, retriever_k, chatbot, turns,
                   transcript, overlap>>

\* `return history`: the returned list becomes the session's Chatbot value.
chain_return(l) ==
    /\ call[l].pc = "return"
    /\ chatbot' = [chatbot EXCEPT ![call[l].session] = call[l].history]
    /\ call' = [call EXCEPT ![l] = IdleCall]
    /\ transcript' = [transcript EXCEPT ![call[l].session] =
                        Append(@, [question |-> call[l].user_input,
                                   answer |-> call[l].response])]
    /\ UNCHANGED <<promptVars, buildVars, program, fn, store, retriever_k, memory, turns, said,
                   overlap>>

Next ==
    \/ \E l \in Listeners, s \in Sessions, q \in Questions : chat(l, s, q)
    \/ \E l \in Listeners : chat_create_error(l)
    \/ \E l \in Listeners : chat_create(l)
    \/ \E l \in Listeners, d \in Deltas : chat_delta(l, d)
    \/ \E l \in Listeners : chat_stream_error(l)
    \/ \E l \in Listeners : chat_stream_end(l)
    \/ \E l \in Listeners, s \in Sessions, q \in Questions : chat_as_messages(l, s, q)
    \/ \E l \in Listeners, s \in Sessions, q \in Questions : chat_as_tuples(l, s, q)
    \/ \E l \in Listeners : chain_invoke_error(l)
    \/ \E l \in Listeners, a \in Answers : chain_invoke(l, a)
    \/ \E l \in Listeners : chain_return(l)

Spec == Init /\ [][Next]_vars

-----------------------------------------------------------------------------
(* Retrieval: the retriever each program creates, and user_prompt.         *)

Programs == {"app", "langchain_app", "rag_setup", "calisthenics_assistant"}

\* The programs that build their prompt with user_prompt.
PromptPrograms == {"app", "rag_setup"}

\* Author folders and book files of the knowledge base. A name may hold the
\* separator the citation line is formatted with, or spell a default.
FolderNames == {<<"a">>, <<"a", " ", "i", "n", " ", "\"", "b", "\"">>, <<"Unknown Author">>}

FileNames == {<<"a">>, <<"b", "\"", " ", "i", "n", " ", "\"", "a">>}

\* A chunk whose metadata lacks `key`.
WithoutKey(doc, key) ==
    [doc EXCEPT !.metadata = [k \in DOMAIN doc.metadata \ {key} |-> doc.metadata[k]]]

LoadedChunks == {LoadedDocument(f, Pdf(g), <<"t">>) : f \in FolderNames, g \in FileNames}

StoredChunks ==
    LoadedChunks
    \cup {WithoutKey(c, "author") : c \in LoadedChunks}
    \cup {WithoutKey(c, "book") : c \in LoadedChunks}
    \cup {WithoutKey(WithoutKey(c, "author"), "book") : c \in LoadedChunks}

\* Collections of a few chunks of every kind, and collections of one chunk
\* repeated, up to more than K_RESULTS.
RetrievalCollections(p) ==
    {[i \in 1..n |-> LoadedDocument(<<"a">>, Pdf(<<"a">>), <<"t">>)] : n \in 0..MaxStore}
    \cup (IF p \in PromptPrograms
          THEN UNION {[1..n -> StoredChunks] : n \in 0..MaxChunks}
          ELSE {})

\* The questions a prompt is built for.
PromptQuestions == {<<>>, <<"q">>}

\* rag_setup.py line 159: as_retriever() without search_kwargs.
test_retriever_k == DEFAULT_K

\* A program is starting on an existing store; no retriever exists yet.
InitRetrieval ==
    /\ program \in Programs
    /\ fn = "__main__"
    /\ \E docs \in RetrievalCollections(program) :
          store = [p \in Paths |->
                     IF p = "DB_PATH" THEN Persisted(docs, "openai") ELSE NoDirectory]
    /\ retriever_k = 0
    /\ NoChat
    /\ NoPrompt
    /\ NoBuild

\* app.py __main__: load_vector_store() and vector_store.as_retriever().
app_main ==
    /\ program = "app"
    /\ retriever_k = 0
    /\ ~load_vector_store(store["DB_PATH"]).none
    /\ store' = [store EXCEPT !["DB_PATH"] = load_vector_store(@).dir]
    /\ retriever_k' = app_retriever_k
    /\ UNCHANGED <<chatVars, promptVars, ingestVars, buildVars, program, fn>>

\* initialize_conversation_chain() of rag_setup.py (called by
\* langchain_app.py) and of calisthenics_assistant.py.
initialize_conversation_chain ==
    /\ program \in {"langchain_app", "calisthenics_assistant"}
    /\ retriever_k = 0
    /\ ~load_vector_store(store["DB_PATH"]).none
    /\ store' = [store EXCEPT !["DB_PATH"] = load_vector_store(@).dir]
    /\ retriever_k' = chain_retriever_k
    /\ UNCHANGED <<chatVars, promptVars, ingestVars, buildVars, program, fn>>

\* rag_setup.py __main__ -> test_retriever(question), up to the retriever.
test_retriever ==
    /\ program = "rag_setup"
    /\ retriever_k = 0
    /\ ~load_vector_store(store["DB_PATH"]).none
    /\ store' = [store EXCEPT !["DB_PATH"] = load_vector_store(@).dir]
    /\ retriever_k' = test_retriever_k
    /\ UNCHANGED <<chatVars, promptVars, ingestVars, buildVars, program, fn>>

\* user_prompt(user_input): retriever.invoke and the formatted prompt.
user_prompt_call(q) ==
    /\ program \in PromptPrograms
    /\ retriever_k # 0
    /\ prompt_call.pc = "idle"
    /\ retrieved' = Retrieve(Collection("DB_PATH"), retriever_k)
    /\ \E value \in user_prompt(q, retrieved') :
          prompt_call' = [pc |-> "done", user_input |-> q, value |-> value]
    /\ UNCHANGED <<chatVars, buildVars, program, fn, store, retriever_k>>

\* The chain's retrieval step for one question.
chain_retrieve(q) ==
    /\ program \in {"langchain_app", "calisthenics_assistant"}
    /\ retriever_k # 0
    /\ prompt_call.pc = "idle"
    /\ retrieved' = Retrieve(Collection("DB_PATH"), retriever_k)
    /\ prompt_call' = [pc |-> "done", user_input |-> q, value |-> <<>>]
    /\ UNCHANGED <<chatVars, buildVars, program, fn, store, retriever_k>>

NextRetrieval ==
    \/ app_main
    \/ initialize_conversation_chain
    \/ test_retriever
    \/ \E q \in PromptQuestions : user_prompt_call(q)
    \/ \E q \in PromptQuestions : chain_retrieve(q)

SpecRetrieval == InitRetrieval /\ [][NextRetrieval]_vars

-----------------------------------------------------------------------------
(* Index builds: create_vector_store and create_vector_store_hf.           *)

BuildChunks ==
    {LoadedDocument(<<"a">>, Pdf(<<"b">>), <<"t">>),
     LoadedDocument(<<"b">>, Pdf(<<"a">>), <<"u">>)}

BuildInputs == UNION {[1..n -> BuildChunks] : n \in 0..MaxBuildChunks}

\* vectorize.py is run on a machine with no store.
InitStore ==
    /\ program = "vectorize"
    /\ fn = "main"
    /\ store = [p \in Paths |-> NoDirectory]
    /\ retriever_k = 0
    /\ NoChat
    /\ NoPrompt
    /\ NoBuild

\* main: choice "3" calls create_vector_store, choice "5"
\* create_vector_store_hf.
CreateChoice(b) == IF b = "openai" THEN "3" ELSE "5"

CreateAction(b) == IF b = "openai" THEN "create_vector_store" ELSE "create_vector_store_hf"

\* Lines 89-94 / 149-153 of either function: the existing store is loaded
\* and its collection deleted.
BeginBuild(b, chunks) ==
    /\ build.pc = "idle"
    /\ builds < MaxBuilds
    /\ builds' = builds + 1
    /\ latest' = [latest EXCEPT ![PathOf(b)] =
                    [status |-> "running", chunks |-> chunks,
                     replaced |-> Len(store[PathOf(b)].records),
                     prior |-> store[PathOf(b)].records]]
    /\ store' = [store EXCEPT ![PathOf(b)] = delete_existing(@)]
    /\ build' = [pc |-> "from_documents", backend |-> b, chunks |-> chunks, added |-> 0]
    /\ UNCHANGED <<chatVars, promptVars, ingestVars, cli, program, fn, retriever_k>>

create_vector_store(chunks) == BeginBuild("openai", chunks)

create_vector_store_hf(chunks) == BeginBuild("hf", chunks)

\* Chroma.from_documents: the store is opened at persist_directory.
from_documents ==
    /\ build.pc = "from_documents"
    /\ store' = [store EXCEPT ![PathOf(build.backend)] = Chroma(@)]
    /\ build' = [build EXCEPT !.pc = "add"]
    /\ UNCHANGED <<chatVars, promptVars, ingestVars, latest, builds, cli, program, fn, retriever_k>>

\* Chroma.from_documents: the next batch is embedded and added.
add_documents ==
    /\ build.pc = "add"
    /\ build.added < Len(build.chunks)
    /\ LET n == Min(BatchSize, Len(build.chunks) - build.added)
           batch == SubSeq(build.chunks, build.added + 1, build.added + n)
       IN /\ store' = [store EXCEPT ![PathOf(build.backend)] =
                          add_texts(@, batch, build.backend)]
          /\ build' = [build EXCEPT !.added = @ + n]
    /\ UNCHANGED <<chatVars, promptVars, ingestVars, latest, builds, cli, program, fn, retriever_k>>

\* The embedding of the next batch raises: the exception leaves the
\* function and, not being caught in main, ends the CLI; the next run
\* starts afresh.
embedding_error ==
    /\ build.pc = "add"
    /\ build.added < Len(build.chunks)
    /\ latest' = [latest EXCEPT ![PathOf(build.backend)].status = "failed"]
    /\ build' = IdleBuild
    /\ cli' = [StartedCli EXCEPT !.outcome = "raised", !.path = PathOf(build.backend),
                                  !.choice = CreateChoice(build.backend),
                                  !.action = CreateAction(build.backend),
                                  !.running = FALSE]
    /\ UNCHANGED <<chatVars, promptVars, ingestVars, store, builds, program, fn, retriever_k>>

\* return vector_store, assigned to main's vector_store.
create_return ==
    /\ build.pc = "add"
    /\ build.added = Len(build.chunks)
    /\ latest' = [latest EXCEPT ![PathOf(build.backend)].status = "ok"]
    /\ build' = IdleBuild
    /\ cli' = [StartedCli EXCEPT !.vector_store = PathOf(build.backend),
                                  !.embedding = build.backend,
                                  !.outcome = "created", !.path = PathOf(build.backend),
                                  !.choice = CreateChoice(build.backend),
                                  !.action = CreateAction(build.backend)]
    /\ UNCHANGED <<chatVars, promptVars, ingestVars, store, builds, program, fn, retriever_k>>

NextStore ==
    \/ \E chunks \in BuildInputs : create_vector_store(chunks)
    \/ \E chunks \in BuildInputs : create_vector_store_hf(chunks)
    \/ from_documents
    \/ add_documents
    \/ embedding_error
    \/ create_return

SpecStore == InitStore /\ [][NextStore]_vars

-----------------------------------------------------------------------------
(* The CLI of vectorize.py: loading a store and printing its statistics.   *)

\* vector_store_stats(vector_store) on the store directory d: what it
\* prints or raises, whether it read a sample embedding, and the count.
vector_store_stats(vector_store, d) ==
    IF vector_store = "None"
    THEN [outcome |-> "error_printed", sampled |-> FALSE, count |-> 0]
    ELSE IF Len(d.records) = 0
    THEN [outcome |-> "IndexError", sampled |-> TRUE, count |-> 0]
    ELSE [outcome |-> "stats_printed", sampled |-> TRUE, count |-> Len(d.records)]

\* main, choice "4" / "6": vector_store = load_vector_store() / _hf().
main_load(b) ==
    /\ build.pc = "idle"
    /\ LET vector_store == load_vector_store(store[PathOf(b)])
       IN /\ store' = [store EXCEPT ![PathOf(b)] = vector_store.dir]
          /\ cli' = [StartedCli EXCEPT
                       !.vector_store = IF vector_store.none THEN "None" ELSE PathOf(b),
                       !.embedding = IF vector_store.none THEN "None" ELSE b,
                       !.outcome = IF vector_store.none THEN "not_found" ELSE "loaded",
                       !.path = PathOf(b),
                       !.choice = IF b = "openai" THEN "4" ELSE "6",
                       !.action = IF b = "openai" THEN "load_vector_store"
                                  ELSE "load_vector_store_hf"]
    /\ UNCHANGED <<chatVars, promptVars, ingestVars, build, latest, builds, program, fn, retriever_k>>

\* main, choice "7": vector_store_stats(vector_store) unless it is None.
\* An exception raised by the call ends the CLI.
main_stats ==
    /\ build.pc = "idle"
    /\ cli.vector_store # "None"
    /\ LET r == vector_store_stats(cli.vector_store, store[cli.vector_store])
       IN cli' = [vector_store |-> IF r.outcome = "IndexError" THEN "None"
                                   ELSE cli.vector_store,
                  embedding |-> IF r.outcome = "IndexError" THEN "None"
                                ELSE cli.embedding,
                  outcome |-> r.outcome, path |-> cli.vector_store,
                  sampled |-> r.sampled, count |-> r.count,
                  choice |-> "7", action |-> "vector_store_stats",
                  running |-> r.outcome # "IndexError"]
    /\ UNCHANGED <<chatVars, promptVars, ingestVars, build, latest, builds, store, program, fn,
                   retriever_k>>

NextCli ==
    \/ NextStore
    \/ \E b \in Backends : main_load(b)
    \/ main_stats

SpecCli == InitStore /\ [][NextCli]_vars

-----------------------------------------------------------------------------
(* app.py answering questions while vectorize.py rebuilds the store.       *)

\* app.py is up on an existing store; vectorize.py is started next to it.
InitServe ==
    /\ program = "app"
    /\ fn = "chat"
    /\ \E docs \in ChatCollections :
          store = [p \in Paths |->
                     IF p = "DB_PATH" THEN Persisted(docs, "openai") ELSE NoDirectory]
    /\ retriever_k = app_retriever_k
    /\ NoChat
    /\ NoPrompt
    /\ NoBuild

\* retriever.invoke raises: the collection the retriever was created on
\* has been deleted by a rebuild.
retriever_invoke_error(q) ==
    /\ program \in PromptPrograms
    /\ retriever_k # 0
    /\ prompt_call.pc = "idle"
    /\ latest["DB_PATH"].status # "none"
    /\ prompt_call' = [pc |-> "raised", user_input |-> q, value |-> <<>>]
    /\ UNCHANGED <<chatVars, buildVars, retrieved, program, fn, store, retriever_k>>

NextServe ==
    \/ NextStore
    \/ \E q \in PromptQuestions : user_prompt_call(q)
    \/ \E q \in PromptQuestions : retriever_invoke_error(q)

SpecServe == InitServe /\ [][NextServe]_vars

-----------------------------------------------------------------------------
(* Ingestion: load_and_process_documents (vectorize.py).                   *)
(*                                                                         *)
(* The text of a page is the sequence of its paragraphs, the pieces        *)
(* between occurrences of the separator; a paragraph is given by its       *)
(* length in characters, none of them white space.                         *)

\* CharacterTextSplitter's default separator.
Separator == <<"\n", "\n">>

RECURSIVE Sum(_)
Sum(lens) == IF Len(lens) = 0 THEN 0 ELSE lens[1] + Sum(Tail(lens))

\* len(text) of the text with these paragraphs.
TextLength(text) ==
    IF Len(text) = 0 THEN 0 ELSE Sum(text) + Len(Separator) * (Len(text) - 1)

\* re.split(separator, text) without the empty pieces.
split_text_with_regex(text) == SelectSeq(text, LAMBDA piece : piece # 0)

RECURSIVE PopOverlap(_, _, _)
\* _merge_splits, the inner while loop: pieces leave the front of
\* current_doc until what is kept fits the overlap and the new piece.
PopOverlap(current_doc, total, len) ==
    IF \/ total > CHUNK_OVERLAP
       \/ /\ total + len + (IF Len(current_doc) > 0 THEN Len(Separator) ELSE 0)
                > CHUNK_SIZE
          /\ total > 0
    THEN PopOverlap(Tail(current_doc),
                    total - (current_doc[1]
                             + (IF Len(current_doc) > 1 THEN Len(Separator) ELSE 0)),
                    len)
    ELSE [current_doc |-> current_doc, total |-> total]

RECURSIVE MergeLoop(_, _, _, _)
\* _merge_splits, the loop over the pieces, and the final chunk.
MergeLoop(splits, docs, current_doc, total) ==
    IF Len(splits) = 0
    THEN IF Len(current_doc) > 0 THEN Append(docs, current_doc) ELSE docs
    ELSE LET len == splits[1]
             full == total + len + (IF Len(current_doc) > 0 THEN Len(Separator) ELSE 0)
                         > CHUNK_SIZE
             emit == full /\ Len(current_doc) > 0
             kept == IF emit THEN PopOverlap(current_doc, total, len)
                     ELSE [current_doc |-> current_doc, total |-> total]
             next_doc == Append(kept.current_doc, len)
         IN MergeLoop(Tail(splits),
                      IF emit THEN Append(docs, current_doc) ELSE docs,
                      next_doc,
                      kept.total + len + (IF Len(next_doc) > 1 THEN Len(Separator) ELSE 0))

\* CharacterTextSplitter(chunk_size=CHUNK_SIZE,
\* chunk_overlap=CHUNK_OVERLAP).split_text(text): the texts of the chunks.
split_text(text) == MergeLoop(split_text_with_regex(text), <<>>, <<>>, 0)

RECURSIVE split_documents(_)
\* text_splitter.split_documents(documents): every chunk carries a copy of
\* its document's metadata.
split_documents(documents) ==
    IF Len(documents) = 0 THEN <<>>
    ELSE LET doc == documents[1]
             texts == split_text(doc.page_content)
         IN [i \in 1..Len(texts) |->
                [page_content |-> texts[i], metadata |-> doc.metadata]]
            \o split_documents(Tail(documents))

RECURSIVE chunk_parents(_, _)
\* For every chunk of split_documents(documents), the index of the
\* document it was split from (the first being document n).
chunk_parents(documents, n) ==
    IF Len(documents) = 0 THEN <<>>
    ELSE [i \in 1..Len(split_text(documents[1].page_content)) |-> n]
         \o chunk_parents(Tail(documents), n + 1)

RECURSIVE file_docs(_, _)
\* PyPDFLoader on the files of one folder: one document per page, with the
\* metadata added at lines 60-64.
file_docs(folder, files) ==
    IF Len(files) = 0 THEN <<>>
    ELSE [i \in 1..Len(files[1].pages) |->
             LoadedDocument(folder, files[1].name, files[1].pages[i])]
         \o file_docs(folder, Tail(files))

RECURSIVE load_folders(_)
\* The loop over KNOWLEDGE_BASE_DIR.glob("*"): DirectoryLoader.load raises
\* ValueError for an entry that is not a directory.
load_folders(entries) ==
    IF Len(entries) = 0 THEN [raised |-> FALSE, documents |-> <<>>]
    ELSE IF ~entries[1].is_dir THEN [raised |-> TRUE, documents |-> <<>>]
    ELSE LET rest == load_folders(Tail(entries))
         IN IF rest.raised THEN rest
            ELSE [raised |-> FALSE,
                  documents |-> file_docs(entries[1].name, entries[1].files)
                                   \o rest.documents]

\* load_and_process_documents(): glob on a missing directory yields
\* nothing.
load_and_process_documents(base) ==
    LET loaded == load_folders(IF base.exists THEN base.entries ELSE <<>>)
    IN IF loaded.raised
       THEN [pc |-> "done", outcome |-> "ValueError", documents |-> <<>>,
             chunks |-> <<>>, parents |-> <<>>]
       ELSE [pc |-> "done", outcome |-> "returned",
             documents |-> loaded.documents,
             chunks |-> split_documents(loaded.documents),
             parents |-> chunk_parents(loaded.documents, 1)]

\* Names of author folders and of PDF files; some hold a dot.
AuthorFolders == {<<"a">>, <<"a", ".", "b">>}

PdfFiles == {Pdf(<<"b">>), Pdf(<<"b", ".", "a">>)}

ParagraphLengths == {0, 200, 800, 1001}

\* Page texts of up to MaxParagraphs paragraphs.
Texts == UNION {[1..n -> ParagraphLengths] : n \in 0..MaxParagraphs}

\* The page texts of the files in a knowledge base of several folders.
PageTexts == {<<>>, <<800, 800>>}

Files ==
    {[name |-> f, pages |-> pages] :
        f \in PdfFiles, pages \in UNION {[1..n -> PageTexts] : n \in 1..MaxPages}}

\* An entry of the root: a file, or a folder of up to MaxFiles PDF files.
Entries ==
    {[name |-> a, is_dir |-> FALSE, files |-> <<>>] : a \in AuthorFolders}
    \cup {[name |-> a, is_dir |-> TRUE, files |-> files] :
             a \in AuthorFolders, files \in UNION {[1..n -> Files] : n \in 0..MaxFiles}}

KnowledgeBases ==
    {NoKnowledgeBase}
    \cup {[exists |-> TRUE, entries |-> entries] :
             entries \in UNION {[1..n -> Entries] : n \in 0..MaxFolders}}
    \cup {[exists |-> TRUE,
           entries |-> <<[name |-> <<"a">>, is_dir |-> TRUE,
                          files |-> <<[name |-> Pdf(<<"b">>), pages |-> <<text>>]>>]>>] :
             text \in Texts}

\* vectorize.py is started; the knowledge base is whatever is on disk.
InitIngest ==
    /\ program = "vectorize"
    /\ fn = "main"
    /\ store = [p \in Paths |-> NoDirectory]
    /\ retriever_k = 0
    /\ NoChat
    /\ NoPrompt
    /\ build = IdleBuild
    /\ latest = [p \in Paths |->
                   [status |-> "none", chunks |-> <<>>, replaced |-> 0, prior |-> <<>>]]
    /\ builds = 0
    /\ cli = StartedCli
    /\ kb \in KnowledgeBases
    /\ ingest = IdleIngest

\* main, choice "1": documents, chunks = load_and_process_documents()
main_load_documents ==
    /\ ingest.pc = "idle"
    /\ ingest' = load_and_process_documents(kb)
    /\ UNCHANGED <<chatVars, promptVars, build, latest, builds, cli, kb, program, fn,
                   store, retriever_k>>

NextIngest == main_load_documents

SpecIngest == InitIngest /\ [][NextIngest]_vars

-----------------------------------------------------------------------------
(* The menu loop of vectorize.main.                                        *)

\* What the user can type at the prompt.
Inputs == {"1", "2", "3", "4", "5", "6", "7", "8", "9", ""}

\* The branch of the if / elif chain an input selects.
main_branch(choice) ==
    CASE choice = "1" -> "load_and_process_documents"
      [] choice = "2" -> "document_stats"
      [] choice = "3" -> "create_vector_store"
      [] choice = "4" -> "load_vector_store"
      [] choice = "5" -> "create_vector_store_hf"
      [] choice = "6" -> "load_vector_store_hf"
      [] choice = "7" -> "vector_store_stats"
      [] choice = "8" -> "exit"
      [] OTHER -> "invalid"

\* The test is left out: the branch always runs its action.
is_none_never(ing) == FALSE

\* `documents is None` / `chunks is None`: both are set by choice "1".
is_none(ing) == ing.pc = "idle"

\* Knowledge bases: missing, holding a stray file, holding one PDF of one
\* page with two chunks, holding one PDF of one empty page.
MainKnowledgeBases ==
    {NoKnowledgeBase,
     [exists |-> TRUE,
      entries |-> <<[name |-> <<"a">>, is_dir |-> FALSE, files |-> <<>>]>>]}
    \cup {[exists |-> TRUE,
           entries |-> <<[name |-> <<"a">>, is_dir |-> TRUE,
                          files |-> <<[name |-> Pdf(<<"b">>), pages |-> <<text>>]>>]>>] :
             text \in PageTexts}

\* python vectorize.py: main starts with documents, chunks and
\* vector_store set to None.
InitMain ==
    /\ program = "vectorize"
    /\ fn = "main"
    /\ store = [p \in Paths |-> NoDirectory]
    /\ retriever_k = 0
    /\ NoChat
    /\ NoPrompt
    /\ build = IdleBuild
    /\ latest = [p \in Paths |->
                   [status |-> "none", chunks |-> <<>>, replaced |-> 0, prior |-> <<>>]]
    /\ builds = 0
    /\ cli = StartedCli
    /\ kb \in MainKnowledgeBases
    /\ ingest = IdleIngest

\* The loop is at its prompt.
AtPrompt == cli.running /\ build.pc = "idle"

\* The program is run again after it ended.
main_start ==
    /\ ~cli.running
    /\ cli' = StartedCli
    /\ ingest' = IdleIngest
    /\ UNCHANGED <<chatVars, promptVars, build, latest, builds, kb, program, fn, store,
                   retriever_k>>

\* choice "1": documents, chunks = load_and_process_documents(); an
\* exception of the call is not caught and ends the program.
main_load_and_process ==
    /\ AtPrompt
    /\ LET r == load_and_process_documents(kb)
       IN /\ ingest' = IF r.outcome = "returned" THEN r ELSE ingest
          /\ cli' = [cli EXCEPT !.choice = "1", !.action = main_branch("1"),
                                !.outcome = r.outcome,
                                !.running = r.outcome = "returned"]
    /\ UNCHANGED <<chatVars, promptVars, build, latest, builds, kb, program, fn, store,
                   retriever_k>>

\* choice "2" with documents and chunks set: document_stats prints the
\* summary, or its own error when a list is empty.
main_document_stats ==
    /\ AtPrompt
    /\ ~is_none(ingest)
    /\ cli' = [cli EXCEPT !.choice = "2", !.action = main_branch("2"),
                          !.outcome = IF Len(ingest.documents) = 0
                                         \/ Len(ingest.chunks) = 0
                                      THEN "document_stats_error"
                                      ELSE "document_stats_printed"]
    /\ UNCHANGED <<chatVars, promptVars, build, latest, builds, ingestVars, program, fn,
                   store, retriever_k>>

\* choice "3" / "5" with chunks set: create_vector_store(chunks) /
\* create_vector_store_hf(chunks).
main_create(b) ==
    /\ AtPrompt
    /\ ~is_none(ingest)
    /\ BeginBuild(b, ingest.chunks)

\* choice "4" / "6".
main_load_store(b) ==
    /\ AtPrompt
    /\ main_load(b)

\* choice "7" with vector_store set.
main_vector_store_stats ==
    /\ AtPrompt
    /\ main_stats

\* A choice whose prerequisite is missing: the error is printed and the
\* loop goes on.
main_skip(choice) ==
    /\ AtPrompt
    /\ \/ choice = "2" /\ is_none(ingest)
       \/ choice \in {"3", "5"} /\ is_none(ingest)
       \/ choice = "7" /\ cli.vector_store = "None"
    /\ cli' = [cli EXCEPT !.choice = choice, !.action = main_branch(choice),
                          !.outcome = "skipped"]
    /\ UNCHANGED <<chatVars, promptVars, build, latest, builds, ingestVars, program, fn,
                   store, retriever_k>>

\* The else branch: the input is not one of "1" .. "8".
main_invalid(choice) ==
    /\ AtPrompt
    /\ main_branch(choice) = "invalid"
    /\ cli' = [cli EXCEPT !.choice = choice, !.action = "invalid",
                          !.outcome = "invalid"]
    /\ UNCHANGED <<chatVars, promptVars, build, latest, builds, ingestVars, program, fn,
                   store, retriever_k>>

\* choice "8": break.
main_exit ==
    /\ AtPrompt
    /\ cli' = [cli EXCEPT !.choice = "8", !.action = main_branch("8"),
                          !.outcome = "exit", !.running = FALSE]
    /\ UNCHANGED <<chatVars, promptVars, build, latest, builds, ingestVars, program, fn,
                   store, retriever_k>>

NextMain ==
    \/ main_start
    \/ main_load_and_process
    \/ main_document_stats
    \/ \E b \in Backends : main_create(b)
    \/ from_documents
    \/ add_documents
    \/ embedding_error
    \/ create_return
    \/ \E b \in Backends : main_load_store(b)
    \/ main_vector_store_stats
    \/ \E choice \in Inputs : main_skip(choice)
    \/ \E choice \in Inputs : main_invalid(choice)
    \/ main_exit

SpecMain == InitMain /\ [][NextMain]_vars

-----------------------------------------------------------------------------
(* Startup of the two chat applications.                                   *)

ChatPrograms == {"app", "langchain_app"}

\* app.py or langchain_app.py is started; DB_PATH holds a store or does
\* not exist, whatever the HuggingFace location holds.
InitStartup ==
    /\ program \in ChatPrograms
    /\ fn = "__main__"
    /\ \E d \in {NoDirectory} \cup
                {Persisted(docs, "openai") : docs \in RetrievalCollections(program)} :
          \E h \in {NoDirectory, Persisted(<<>>, "hf")} :
             store = [p \in Paths |-> IF p = "DB_PATH" THEN d ELSE h]
    /\ retriever_k = 0
    /\ NoChat
    /\ NoPrompt
    /\ NoBuild

\* app.py __main__ without a store: load_vector_store() returns None,
\* None.as_retriever() raises, and the except clause raises again.
app_main_error ==
    /\ program = "app"
    /\ fn = "__main__"
    /\ retriever_k = 0
    /\ load_vector_store(store["DB_PATH"]).none
    /\ fn' = "raised"
    /\ UNCHANGED <<chatVars, promptVars, buildVars, program, store, retriever_k>>

\* langchain_app.py __main__ without a store: initialize_conversation_chain
\* raises ValueError, and the except clause raises again.
initialize_conversation_chain_error ==
    /\ program = "langchain_app"
    /\ fn = "__main__"
    /\ retriever_k = 0
    /\ load_vector_store(store["DB_PATH"]).none
    /\ fn' = "raised"
    /\ UNCHANGED <<chatVars, promptVars, buildVars, program, store, retriever_k>>

\* launch_app(), the statement after the try block: the interface is
\* built and its handler waits for events.
launch_app ==
    /\ program \in ChatPrograms
    /\ fn = "__main__"
    /\ retriever_k # 0
    /\ fn' \in Handlers(program)
    /\ UNCHANGED <<chatVars, promptVars, buildVars, program, store, retriever_k>>

NextStartup ==
    \/ app_main
    \/ app_main_error
    \/ initialize_conversation_chain
    \/ initialize_conversation_chain_error
    \/ launch_app

SpecStartup == InitStartup /\ [][NextStartup]_vars

-----------------------------------------------------------------------------
(* Properties of the chat handlers.                                        *)

\* The question is empty or consists of whitespace only.
IsBlank(q) == \A i \in 1..Len(q) : q[i] = " "

Busy == {l \in Listeners : call[l].pc # "idle"}

\* The conversational context of a request: the messages between the
\* system message and the current question (app.py), the chat_history that
\* precedes the question (the chain).
Context(c) ==
    IF fn = "chat" THEN SubSeq(c.messages, 2, Len(c.messages) - 1)
    ELSE SubSeq(c.messages, 1, Len(c.messages) - 1)

RoleOf(m) ==
    CASE m.role = "human" -> "user" [] m.role = "ai" -> "assistant" [] OTHER -> m.role

RECURSIVE ConcatDeltas(_)
\* The full answer text of a stream: its deltas' texts, concatenated.
ConcatDeltas(ds) ==
    IF Len(ds) = 0 THEN <<>>
    ELSE (IF ds[1].none THEN <<>> ELSE ds[1].text) \o ConcatDeltas(Tail(ds))

RECURSIVE TurnMessages(_)
\* The turns of a transcript as user / assistant messages.
TurnMessages(ts) ==
    IF Len(ts) = 0 THEN <<>>
    ELSE <<Message("user", ts[1].question), Message("assistant", ts[1].answer)>>
            \o TurnMessages(Tail(ts))

RECURSIVE IsSubsequence(_, _)
\* a can be obtained from b by deleting elements.
IsSubsequence(a, b) ==
    IF Len(a) = 0 THEN TRUE
    ELSE IF Len(b) = 0 THEN FALSE
    ELSE IF a[1].role = RoleOf(b[1]) /\ a[1].content = b[1].content
         THEN IsSubsequence(Tail(a), Tail(b))
         ELSE IsSubsequence(a, Tail(b))

Alternates(h) ==
    \A i \in 1..Len(h) : h[i].role = (IF i % 2 = 1 THEN "user" ELSE "assistant")

\* C1: a call whose question is empty or whitespace-only is rejected before
\* anything is done: no invocation with such a question ever gets as far as
\* querying the retriever and sending a request to the LLM or the chain.
C1_BlankQuestionRejected ==
    \A l \in Busy : ~IsBlank(call[l].user_input)

\* C2: when the LLM call fails or the stream ends with an error, at whatever
\* point of the turn, the history list passed to the handler is as it was
\* when the handler was called.
C2_FailureLeavesHistory ==
    [][\A l \in Listeners :
          (chat_create_error(l) \/ chat_stream_error(l) \/ chain_invoke_error(l))
              => call[l].history = call[l].received]_vars

\* C3: the context of every request made for a session contains only
\* messages of that session: its own questions and the answers it was shown.
C3_SessionIsolation ==
    \A l \in Busy :
        LET ctx == Context(call[l]) IN
        \A i \in 1..Len(ctx) :
            \E m \in said[call[l].session] :
                m.role = RoleOf(ctx[i]) /\ m.content = ctx[i].content

\* C4: every history a turn returns (app.chat: every history it yields, the
\* last of which carries the full answer; chat_as_messages: the list it
\* returns) is the history it received followed by the user's raw question
\* and the assistant's answer, and roles alternate user, assistant.
C4_TurnAppendsQuestionAndAnswer ==
    fn # "chat_as_tuples" =>
        /\ \A s \in Sessions : Alternates(chatbot[s])
        /\ \A l \in Busy :
            LET c == call[l] IN
            /\ c.pc = "stream" =>
                \A i \in 1..Len(c.yields) :
                    c.yields[i] = c.received \o
                        <<Message("user", c.user_input),
                          Message("assistant", ConcatDeltas(SubSeq(c.deltas, 1, i)))>>
            /\ c.pc = "return" =>
                /\ c.history = c.received \o
                        <<Message("user", c.user_input),
                          Message("assistant", c.response)>>
                /\ Alternates(c.history)

\* A second turn of a session has yielded twice (app.chat).
C4_Witness ==
    \E l \in Busy :
        /\ call[l].pc = "stream"
        /\ Len(call[l].received) = 2
        /\ Len(call[l].yields) = 2
        /\ call[l].response # <<>>
        /\ ~overlap[call[l].session]
        /\ Len(transcript[call[l].session]) = 1

\* C5: the request of app.chat is the system message, then the prior
\* history in its order, then one user message carrying the question and,
\* when chunks were retrieved, the citation block; nothing else, and the raw
\* question is not yet part of it.
C5_RequestLayout ==
    fn = "chat" =>
        \A l \in Busy :
            LET c == call[l]
                m == c.messages
                n == Len(m)
                head == <<"User Input: ">> \o c.user_input
                k == Len(head)
            IN  /\ n = Len(c.received) + 2
                /\ m[1] = Message("system", SYSTEM_PROMPT)
                /\ SubSeq(m, 2, n - 1) = c.received
                /\ {i \in 1..n : m[i].role = "system"} = {1}
                /\ m[n].role = "user"
                /\ Len(m[n].content) >= k
                /\ SubSeq(m[n].content, 1, k) = head
                /\ IF Len(c.results) = 0
                   THEN Len(m[n].content) = k
                   ELSE /\ Len(m[n].content) > k + 1
                        /\ m[n].content[k + 1] = "\n\nSources:\n"

\* A request built on a non-empty history, with a citation block.
C5_Witness ==
    /\ fn = "chat"
    /\ \E l \in Busy :
        /\ Len(call[l].received) = 2
        /\ Len(call[l].results) > 0
        /\ call[l].user_input = <<"q">>

\* C6: in a session whose turns never ran at the same time, the request of
\* a turn contains every earlier completed turn of the session, in order:
\* the raw question and the complete answer of each.
C6_RequestCarriesEarlierTurns ==
    fn = "chat" =>
        \A l \in Busy :
            ~overlap[call[l].session] =>
                IsSubsequence(TurnMessages(transcript[call[l].session]),
                              Context(call[l]))

IsPrefix(s, t) == Len(s) <= Len(t) /\ SubSeq(t, 1, Len(s)) = s

\* C18: for a stream of n deltas app.chat yields n values and then stops;
\* the i-th value is the prior history, the question, and one assistant
\* message holding deltas 1..i concatenated (a delta without content being
\* the empty string): each answer is a prefix of the next and the last is
\* the full answer.
C18_StreamYieldsPrefixes ==
    [][\A l \in Listeners :
        LET c == call'[l] IN
        /\ c.pc = "stream" =>
            /\ Len(c.yields) = Len(c.deltas)
            /\ \A i \in 1..Len(c.yields) :
                  /\ c.yields[i] = c.received \o
                        <<Message("user", c.user_input),
                          Message("assistant", ConcatDeltas(SubSeq(c.deltas, 1, i)))>>
                  /\ i > 1 => IsPrefix(c.yields[i - 1][Len(c.yields[i - 1])].content,
                                       c.yields[i][Len(c.yields[i])].content)
            /\ Len(c.yields) > 0 =>
                  c.yields[Len(c.yields)][Len(c.received) + 2].content = c.response
            /\ c.response = ConcatDeltas(c.deltas)
        /\ (call[l].pc = "stream" /\ c.pc = "idle") => chatbot' = chatbot
      ]_vars

\* A stream has delivered a delta without content and then one with
\* content: two values were yielded.
C18_Witness ==
    \E l \in Busy :
        /\ call[l].pc = "stream"
        /\ Len(call[l].deltas) = 2
        /\ call[l].deltas[1].none
        /\ ~call[l].deltas[2].none
        /\ Len(call[l].yields) = 2
        /\ call[l].response = <<"a">>

-----------------------------------------------------------------------------
(* Properties of user_prompt and of the retrievers.                        *)

RECURSIVE Split(_, _)
\* s.split(sep) for a one-element separator.
Split(s, sep) ==
    IF \A i \in 1..Len(s) : s[i] # sep THEN <<s>>
    ELSE LET i == CHOOSE k \in 1..Len(s) :
                      s[k] = sep /\ \A j \in 1..(k - 1) : s[j] # sep
         IN <<SubSeq(s, 1, i - 1)>> \o Split(SubSeq(s, i + 1, Len(s)), sep)

\* The (author, book) pair a chunk is cited with.
Pair(doc) ==
    <<IF "author" \in DOMAIN doc.metadata THEN doc.metadata["author"]
      ELSE <<"Unknown Author">>,
      IF "book" \in DOMAIN doc.metadata THEN doc.metadata["book"]
      ELSE <<"Unknown Book">>>>

Pairs(results) == {Pair(results[i]) : i \in 1..Len(results)}

\* The citation line of a pair.
Citation(pair) ==
    <<"-", " ">> \o pair[1] \o <<" ", "i", "n", " ", "\"">> \o pair[2] \o <<"\"">>

\* The positions of a 'Sources:' header in a prompt.
HeaderAt(v) == {i \in 1..Len(v) : v[i] = "\n\nSources:\n"}

\* The lines between the header and the final full stop.
CitationLines(v) ==
    LET h == CHOOSE i \in HeaderAt(v) : TRUE
    IN Split(SubSeq(v, h + 1, Len(v) - 1), "\n")

PromptDone == prompt_call.pc = "done" /\ program \in PromptPrograms

\* C7: for a non-empty sequence of retrieved chunks the citation block of
\* user_prompt has exactly one line per distinct (author, book) pair: as
\* many lines as pairs, every pair cited, none cited twice; a chunk without
\* author or book metadata is cited as 'Unknown Author' / 'Unknown Book'.
C7_OneLinePerPair ==
    (PromptDone /\ Len(retrieved) > 0) =>
        /\ HeaderAt(prompt_call.value) # {}
        /\ LET lines == CitationLines(prompt_call.value)
           IN /\ Len(lines) = Cardinality(Pairs(retrieved))
              /\ \A pair \in Pairs(retrieved) :
                    Cardinality({i \in 1..Len(lines) : lines[i] = Citation(pair)}) = 1

\* Three chunks, the first two of one pair, the third of another pair and
\* without author metadata: two lines.
C7_Witness ==
    /\ PromptDone
    /\ Len(retrieved) = 3
    /\ Pair(retrieved[1]) = Pair(retrieved[2])
    /\ Pair(retrieved[3]) # Pair(retrieved[1])
    /\ "author" \notin DOMAIN retrieved[3].metadata
    /\ Len(CitationLines(prompt_call.value)) = 2

\* C8: with zero chunks retrieved user_prompt returns only
\* 'User Input: <question>'; a 'Sources:' header is in the user message
\* if and only if at least one chunk was retrieved, and at least one
\* citation line follows it.
C8_SourcesIffRetrieved ==
    PromptDone =>
        /\ Len(retrieved) = 0 =>
              prompt_call.value = <<"User Input: ">> \o prompt_call.user_input
        /\ HeaderAt(prompt_call.value) # {} <=> Len(retrieved) > 0
        /\ HeaderAt(prompt_call.value) # {} =>
              LET lines == CitationLines(prompt_call.value)
              IN /\ Len(lines) >= 1
                 /\ \E pair \in Pairs(retrieved) : lines[1] = Citation(pair)

\* A question asked of an empty collection.
C8_Witness ==
    /\ PromptDone
    /\ Len(Collection("DB_PATH")) = 0
    /\ retrieved = <<>>
    /\ prompt_call.value = <<"User Input: ", "q">>

\* C9: every retriever that answers questions is configured with
\* K_RESULTS: a retrieval returns at most K_RESULTS chunks, and K_RESULTS
\* chunks when the collection holds at least that many.
C9_RetrieverUsesKResults ==
    prompt_call.pc = "done" =>
        /\ Len(retrieved) <= K_RESULTS
        /\ Len(Collection("DB_PATH")) >= K_RESULTS => Len(retrieved) = K_RESULTS

-----------------------------------------------------------------------------
(* Properties of the index builds.                                         *)

\* C10: after successful create_vector_store calls on a storage location
\* the persisted collection holds exactly the chunks of the most recent
\* call: the record count is the length of those chunks and no record of
\* an earlier call is left.
C10_RebuildLeavesLatestChunks ==
    \A p \in Paths :
        latest[p].status = "ok" =>
            /\ store[p].dir /\ store[p].coll
            /\ Len(store[p].records) = Len(latest[p].chunks)
            /\ Collection(p) = latest[p].chunks

\* A successful build over a collection that held a different number of
\* records.
C10_Witness ==
    \E p \in Paths :
        /\ latest[p].status = "ok"
        /\ latest[p].replaced > 0
        /\ latest[p].replaced # Len(latest[p].chunks)
        /\ Len(latest[p].chunks) > 0
        /\ Len(store[p].records) = Len(latest[p].chunks)

\* C11: when the embedding fails during create_vector_store or
\* create_vector_store_hf, the collection persisted before the call is
\* still present and unchanged.
C11_FailedBuildKeepsPrior ==
    \A p \in Paths :
        (latest[p].status = "failed" /\ Len(latest[p].prior) > 0) =>
            /\ store[p].coll
            /\ store[p].records = latest[p].prior

\* C12: after create_vector_store returned or raised, the collection holds
\* every one of the given chunks or none of them.
C12_BuildAllOrNothing ==
    \A p \in Paths :
        latest[p].status \in {"ok", "failed"} =>
            \/ Collection(p) = latest[p].chunks
            \/ Len(store[p].records) = 0

\* C13: load_vector_store returns None if and only if no built collection
\* is at the location: a handle only when a built collection is present,
\* None when the index was never built or its collection was deleted.
C13_LoadNoneIffNoCollection ==
    cli.outcome \in {"loaded", "not_found"} =>
        (cli.outcome = "not_found" <=> latest[cli.path].status # "ok")

\* C14: vector_store_stats on a collection with zero records reports the
\* error and reads no sample embedding; it reports count and
\* dimensionality only when the collection has at least one record.
C14_StatsOnEmptyReportsError ==
    cli.outcome \in {"error_printed", "IndexError", "stats_printed"} =>
        IF Len(store[cli.path].records) = 0
        THEN cli.outcome = "error_printed" /\ ~cli.sampled
        ELSE cli.outcome = "stats_printed" /\ cli.count = Len(store[cli.path].records)

-----------------------------------------------------------------------------
(* Properties of the ingestion.                                            *)

\* The PDF files of every folder of the knowledge base.
PdfCount ==
    IF ~kb.exists THEN 0
    ELSE Sum([i \in 1..Len(kb.entries) |-> Len(kb.entries[i].files)])

RECURSIVE FileOrigins(_, _)
FileOrigins(folder, files) ==
    IF Len(files) = 0 THEN <<>>
    ELSE [i \in 1..Len(files[1].pages) |-> <<folder, files[1].name>>]
         \o FileOrigins(folder, Tail(files))

RECURSIVE Origins(_)
\* For every page of the knowledge base, in loading order, the names of
\* its folder and of its file.
Origins(entries) ==
    IF Len(entries) = 0 THEN <<>>
    ELSE FileOrigins(entries[1].name, entries[1].files) \o Origins(Tail(entries))

\* The file name without its ".pdf".
WithoutExtension(file) == SubSeq(file, 1, Len(file) - 4)

Max(a, b) == IF a >= b THEN a ELSE b

\* ceil(a / b) for a >= 0 and b > 0.
Ceil(a, b) == (a + b - 1) \div b

\* C15: load_and_process_documents fails when the knowledge-base root does
\* not exist or holds no PDF file at all; a folder without PDFs is skipped
\* without error and contributes no document.
C15_IngestionErrorOnEmptyBase ==
    ingest.pc = "done" =>
        /\ (~kb.exists \/ PdfCount = 0) => ingest.outcome # "returned"
        /\ (/\ PdfCount > 0
            /\ \A i \in 1..Len(kb.entries) : kb.entries[i].is_dir) =>
              /\ ingest.outcome = "returned"
              /\ Len(ingest.documents) = Len(Origins(kb.entries))

\* C19: every chunk carries exactly the metadata of the document it was
\* split from, and the document loaded from folder F and file B has
\* author = the title-cased name of F and book = the title-cased name of B
\* without its extension.
C19_ChunksKeepAuthorAndBook ==
    (ingest.pc = "done" /\ ingest.outcome = "returned") =>
        /\ \A i \in 1..Len(ingest.chunks) :
              ingest.chunks[i].metadata = ingest.documents[ingest.parents[i]].metadata
        /\ Len(ingest.documents) = Len(Origins(kb.entries))
        /\ \A j \in 1..Len(ingest.documents) :
              /\ ingest.documents[j].metadata["author"] = Title(Origins(kb.entries)[j][1])
              /\ ingest.documents[j].metadata["book"]
                    = Title(WithoutExtension(Origins(kb.entries)[j][2]))

\* C20: a document of L characters is split into
\* ceil(max(L - O, 1) / (S - O)) chunks for S = CHUNK_SIZE and
\* O = CHUNK_OVERLAP; a document with L <= S gives one chunk, the whole
\* text.
C20_ChunkCount ==
    (ingest.pc = "done" /\ ingest.outcome = "returned") =>
        \A j \in 1..Len(ingest.documents) :
            LET L == TextLength(ingest.documents[j].page_content)
                mine == {i \in 1..Len(ingest.chunks) : ingest.parents[i] = j}
            IN /\ Cardinality(mine)
                    = Ceil(Max(L - CHUNK_OVERLAP, 1), CHUNK_SIZE - CHUNK_OVERLAP)
               /\ L <= CHUNK_SIZE =>
                     \A i \in mine :
                        ingest.chunks[i].page_content = ingest.documents[j].page_content

\* A rebuild of the collection at p is between its start and its
\* completion.
Rebuilding(p) == build.pc # "idle" /\ PathOf(build.backend) = p

\* C16: between the start of a rebuild and its completion no query of a
\* running chat application executes against the same location.
C16_RebuildExcludesQueries ==
    [][(prompt_call.pc = "idle" /\ prompt_call'.pc # "idle") => ~Rebuilding("DB_PATH")]_vars

\* The storage location that belongs to a backend.
OwnPath(b) == IF b = "openai" THEN "DB_PATH" ELSE "DB_PATH_hf"

\* C21: no collection mixes vectors of the two backends and every handle
\* is bound to the backend that built its collection: OpenAI builds and
\* loads touch only DB_PATH, Hugging Face ones only DB_PATH + '_hf', and a
\* build or delete of one collection leaves the other unchanged.
C21_BackendsKeepApart ==
    [][/\ \A p \in DOMAIN store' : \A i \in 1..Len(store'[p].records) :
             OwnPath(store'[p].records[i].embedding) = p
       /\ cli'.vector_store # "None" =>
             /\ cli'.vector_store = OwnPath(cli'.embedding)
             /\ \A i \in 1..Len(store'[cli'.vector_store].records) :
                   store'[cli'.vector_store].records[i].embedding = cli'.embedding
       /\ \A p \in DOMAIN store :
             store'[p] # store[p] =>
                p = OwnPath(IF build.pc = "idle" THEN build'.backend ELSE build.backend)
      ]_vars

\* Both collections hold records and the OpenAI one has been loaded.
C21_Witness ==
    /\ Len(store["DB_PATH"].records) > 0
    /\ Len(store["DB_PATH_hf"].records) > 0
    /\ cli.outcome = "loaded"
    /\ cli.embedding = "openai"

-----------------------------------------------------------------------------
(* Properties of the menu loop.                                            *)

\* int(choice) for the inputs that are the numbers of menu lines.
ChoiceNumber(choice) ==
    CASE choice = "1" -> 1 [] choice = "2" -> 2 [] choice = "3" -> 3
      [] choice = "4" -> 4 [] choice = "5" -> 5 [] choice = "6" -> 6
      [] choice = "7" -> 7 [] choice = "8" -> 8 [] OTHER -> 0

\* The action a menu line describes.
Described(line) ==
    CASE line = "Load documents, add metadata, and split into chunks"
            -> "load_and_process_documents"
      [] line = "Print statistics about documents and chunks" -> "document_stats"
      [] line = "Create and persist a vector store" -> "create_vector_store"
      [] line = "Load an existing vector store" -> "load_vector_store"
      [] line = "Print statistics about the vector store" -> "vector_store_stats"
      [] line = "Exit" -> "exit"
      [] OTHER -> "none"

\* C22: entering the number printed beside a menu line runs the action
\* the line describes, and every choice the loop handles is in the menu.
C22_MenuMatchesActions ==
    cli.choice # "" =>
        LET n == ChoiceNumber(cli.choice) IN
        /\ n \in 1..Len(VECTORIZE_CLI_CHOICES) =>
              cli.action = Described(VECTORIZE_CLI_CHOICES[n])
        /\ cli.action # "invalid" => n \in 1..Len(VECTORIZE_CLI_CHOICES)

\* C23: an error raised by an action does not end the CLI: the loop ends
\* only when the user enters the exit choice.
C23_ErrorsDoNotEndLoop ==
    ~cli.running => cli.action = "exit"

\* C24: create_vector_store / create_vector_store_hf run only when chunks
\* is not None, document_stats only when documents and chunks are not
\* None, vector_store_stats only when vector_store is not None; when the
\* prerequisite is missing or the input is not a choice, documents, chunks
\* and vector_store are left unchanged.
C24_ActionsNeedPrerequisites ==
    [][/\ (build.pc = "idle" /\ build'.pc # "idle") => ingest.pc # "idle"
       /\ (cli' # cli /\ cli'.outcome \in {"document_stats_printed", "document_stats_error"})
             => ingest.pc # "idle"
       /\ (cli' # cli /\ cli'.outcome \in {"stats_printed", "IndexError"})
             => cli.vector_store # "None"
       /\ (cli' # cli /\ cli'.outcome \in {"skipped", "invalid"}) =>
             /\ ingest' = ingest
             /\ cli'.vector_store = cli.vector_store
             /\ cli'.running
             /\ store' = store
             /\ build' = build
      ]_vars

\* After a build and a restart, choice "3" is entered before choice "1".
C24_Witness ==
    /\ builds = 1
    /\ cli.outcome = "skipped"
    /\ cli.action = "create_vector_store"
    /\ ingest.pc = "idle"

-----------------------------------------------------------------------------
(* Properties of the startup of the chat applications.                     *)

\* C25: a chat application never launches its interface without a
\* retriever: with no store at DB_PATH startup raises and launch_app is not
\* called, and launch_app runs only once the retriever (or the chain) has
\* been initialised from an existing store.
C25_NoLaunchWithoutStore ==
    [][/\ (retriever_k = 0 /\ retriever_k' # 0) => store["DB_PATH"].dir
       /\ (~store["DB_PATH"].dir /\ fn' # fn) => fn' = "raised"
       /\ (fn' \in Handlers(program) /\ fn' # fn) =>
             /\ retriever_k # 0
             /\ store["DB_PATH"].dir
       /\ fn = "raised" => fn' = "raised" /\ retriever_k' = 0
      ]_vars

\* Startup has raised on a missing store.
C25_Witness ==
    /\ fn = "raised"
    /\ ~store["DB_PATH"].dir
    /\ store["DB_PATH_hf"].dir
    /\ retriever_k = 0

====
